---- MODULE Spec2Model ----
(***************************************************************************)
(* A model of the evohome clients:                                         *)
(*   - the legacy client (evohomeclient.EvohomeClient): cached location    *)
(*     data, mutating writes followed by task-status polling;              *)
(*   - the control system of the newer client                             *)
(*     (evohomeasync2.controlsystem.ControlSystem): construction from a    *)
(*     config payload, system-mode requests, the temperature report and    *)
(*     schedule backup / restore;                                          *)
(*   - the schedule schemas (evohomeasync2.schema.schedule).               *)
(* Three specifications share the module: SpecLegacy, SpecTcs and          *)
(* SpecSchema.  Each one leaves the variables of the others unchanged.     *)
(***************************************************************************)
EXTENDS Integers, Sequences, FiniteSets, TLC

(***************************************************************************)
(* Bounds of the model                                                     *)
(***************************************************************************)
\* the poll counter saturates here (the loop itself has no cap)
MaxPolls == 3
\* the number of task ids the server hands out before it wraps around
MaxTasks == 2
\* the longest zone list of a config payload
MaxZones == 2

Min(a, b) == IF a < b THEN a ELSE b

(***************************************************************************)
(* A session drives one client object through one family of operations:    *)
(* the legacy client, or a control system for mode changes, for            *)
(* temperature reports or for schedule backup / restore, or it validates   *)
(* schedule documents, day entries, switchpoints or weeks.  The families   *)
(* share no state beyond the constructed object.                           *)
(***************************************************************************)
VARIABLE session

Sessions == {"legacy", "mode", "report", "schedules", "schema",
             "dayentry", "switchpoint", "week"}

\* the legacy client (evohomeclient.EvohomeClient)
VARIABLES
    user_data,      \* EvohomeClient.user_data: None or the session record
    headers,        \* EvohomeClient.headers: "None", "json" or "json+sessionId"
    full_data,      \* EvohomeClient.full_data: None or the location payload
    location_id,    \* EvohomeClient.location_id
    devices,        \* EvohomeClient.devices: None or deviceID -> device
    named_devices,  \* EvohomeClient.named_devices: None or name -> device
    lop,            \* the legacy operation last entered
    lpc,            \* its position: "idle" or "poll" (inside the while loop)
    lout,           \* how it ended: "none", "returned" or "raised"
    lerr,           \* the kind of error raised
    task_id,        \* the task id returned by the write of this call
    lastPoll,       \* the last task-status check: task asked for, state reported
    nAuth,          \* POST /Session requests sent by the current call
    nFetch,         \* GET /locations requests sent by the current call
    nPut,           \* PUT requests sent by the current call
    nPoll,          \* GET /commTasks requests sent by the current call (saturating)
    putDevice,      \* the device id in the URL of the PUT of this call
    lforce,         \* the force_refresh argument of the last temperatures()
    lreport,        \* the list produced by temperatures()
    srvTask         \* server side: the next task id it hands out

lvars == <<user_data, headers, full_data, location_id, devices, named_devices,
           lop, lpc, lout, lerr, task_id, lastPoll, nAuth, nFetch, nPut, nPoll,
           putDevice, lforce, lreport, srvTask>>

\* the control system (evohomeasync2.controlsystem.ControlSystem)
VARIABLES
    config,         \* the config payload given to ControlSystem(), None before
    built,          \* "none", "ok" (constructor returned) or "failed" (it raised)
    _zones,         \* ControlSystem._zones: the zones in construction order
    zones,          \* ControlSystem.zones: zone by name
    zones_by_id,    \* ControlSystem.zones_by_id: zone by identifier
    hotwater,       \* ControlSystem.hotwater: None or the hot-water unit
    zstatus,        \* per zone id: temperatureStatus / setpointStatus of the Zone
    dhwTemp,        \* hotwater.temperatureStatus["temperature"]
    top,            \* the operation last run on the control system
    tout,           \* how it ended: "none", "returned" or "raised"
    terr,           \* the kind of error raised
    marg,           \* the arguments of the last mode change: mode, until
    body,           \* the JSON body of the last mode request, None if none was built
    tPut,           \* PUT requests sent by the current call
    tStatus,        \* status fetches (location.status) made by the current call
    treport,        \* the list returned by temperatures()
    file,           \* the backup file: None or its entries in document order
    submitted,      \* the schedule-set requests of the current restore, in order
    fetched,        \* the schedule fetches sent by the current backup, in order
    bpc,            \* the backup's position: "idle" or "await" (a fetch is awaited)
    bidx,           \* the entity whose schedule the backup awaits
    inflight,       \* schedule fetches sent and not yet answered
    schedules       \* the schedules dict of the running backup, in insertion order

tvars == <<config, built, _zones, zones, zones_by_id, hotwater, zstatus, dhwTemp,
           top, tout, terr, marg, body, tPut, tStatus, treport, file, submitted,
           fetched, bpc, bidx, inflight, schedules>>

\* the position of a backup between its awaits
bvars == <<bpc, bidx, inflight, schedules>>

\* the schedule document under validation
VARIABLES
    skeys,      \* how the document under validation spells its keys and day
    sdoc,       \* the document
    sput,       \* SCH_PUT_SCHEDULE on it: "none", "accepted" or "rejected"
    sget        \* SCH_GET_SCHEDULE on it: "none", "accepted" or "rejected"

svars == <<skeys, sdoc, sput, sget>>

vars == <<session, lvars, tvars, svars>>

\* what an operation of one part leaves alone
LFrame == UNCHANGED <<session, tvars, svars>>
TFrame == UNCHANGED <<session, lvars, svars>>
SFrame == UNCHANGED <<session, lvars, tvars>>

(***************************************************************************)
(* Optional values: Python's None is the empty sequence, a value x is <<x>> *)
(***************************************************************************)
NoneV == <<>>
Some(x) == <<x>>
IsNone(o) == o = <<>>
The(o) == o[1]

(***************************************************************************)
(* JSON values.  Every value is a record of one shape: t is its type, i the *)
(* number (floats in tenths), s the string as a sequence of characters,    *)
(* l the items of a list, d the dict as a function from keys (sequences of *)
(* characters) to values.                                                  *)
(***************************************************************************)
JV(t, i, s, l, d) == [t |-> t, i |-> i, s |-> s, l |-> l, d |-> d]
JNull == JV("null", 0, <<>>, <<>>, <<>>)
JInt(n) == JV("int", n, <<>>, <<>>, <<>>)
JFloat(tenths) == JV("float", tenths, <<>>, <<>>, <<>>)
JStr(chars) == JV("str", 0, chars, <<>>, <<>>)
JList(items) == JV("list", 0, <<>>, items, <<>>)
JDict(f) == JV("dict", 0, <<>>, <<>>, f)

(***************************************************************************)
(* Legacy client                                                           *)
(***************************************************************************)
\* a device of the location payload; hasHeatSetpoint: 'heatSetpoint' is a key
\* of thermostat.changeableValues
Dev(id, name, model, temp, has, sp) ==
    [deviceID |-> id, name |-> name, thermostatModelType |-> model,
     indoorTemperature |-> temp, hasHeatSetpoint |-> has, heatSetpoint |-> sp]

\* the location payloads the server can answer with ([0] of the reply list)
LocationPayloads ==
    { [locationID |-> 7,
       devices |-> <<Dev(1, "Lounge", "EMEA_ZONE", 18, TRUE, 20)>>],
      [locationID |-> 7,
       devices |-> <<Dev(1, "Lounge", "EMEA_ZONE", 19, TRUE, 21),
                     Dev(2, "Bedroom", "EMEA_ZONE", 17, FALSE, 0)>>],
      [locationID |-> 8,
       devices |-> <<Dev(3, "", "DOMESTIC_HOT_WATER", 50, FALSE, 0),
                     Dev(1, "Lounge", "EMEA_ZONE", 18, TRUE, 20)>>] }

\* the session record the Session endpoint answers with / the caller passes in
SessionRecord == [userID |-> 42, sessionId |-> "sid"]

TaskStates == {"Created", "Running", "Failed", "Succeeded"}

\* zone references a caller can pass: a name (str) or a device id (int)
ZoneNames == {"Lounge", "Bedroom"}
DeviceIds == {1, 2}

LegacyWrites == {"_set_status", "_set_heat_setpoint", "_set_dhw"}

\* the fields of the client object as one record
Client ==
    [user_data |-> user_data, headers |-> headers, full_data |-> full_data,
     location_id |-> location_id, devices |-> devices,
     named_devices |-> named_devices]

\* a step of a handler: the client after it, the error raised ("none" when it
\* went through) and the requests it sent
Step(c, err, auth, fetch) == [c |-> c, err |-> err, nAuth |-> auth, nFetch |-> fetch]

\* dict built by "for device in devices: d[key(device)] = device"
RECURSIVE IndexBy(_, _, _)
IndexBy(devs, byName, acc) ==
    IF devs = <<>> THEN acc
    ELSE LET d == Head(devs)
             k == IF byName THEN d.name ELSE d.deviceID
             acc2 == [x \in (DOMAIN acc) \cup {k} |-> IF x = k THEN d ELSE acc[x]]
         IN IndexBy(Tail(devs), byName, acc2)

EmptyDict == [x \in {} |-> 0]

\* EvohomeClient._populate_user_info; authOk: the Session endpoint answers 200
_populate_user_info(c, authOk) ==
    IF IsNone(c.user_data)
    THEN IF authOk
         THEN Step([c EXCEPT !.headers = "json", !.user_data = Some(SessionRecord)],
                   "none", 1, 0)
         ELSE Step([c EXCEPT !.headers = "json"], "transport", 1, 0)
    ELSE Step(c, "none", 0, 0)

\* _populate_full_data as it would be if a refresh added the fetched devices
\* to the indexes it already has instead of building them anew
_populate_full_data_keeping(c, force_refresh, authOk, fetchOk, payload) ==
    IF IsNone(c.full_data) \/ force_refresh
    THEN LET u == _populate_user_info(c, authOk) IN
         IF u.err # "none" THEN u
         ELSE IF u.c.headers = "None"
         THEN Step(u.c, "TypeError", u.nAuth, 0)
         ELSE LET c1 == [u.c EXCEPT !.headers = "json+sessionId"]
                  byId == IF IsNone(c.devices) THEN EmptyDict ELSE The(c.devices)
                  byName == IF IsNone(c.named_devices) THEN EmptyDict
                            ELSE The(c.named_devices)
              IN
              IF ~fetchOk THEN Step(c1, "transport", u.nAuth, 1)
              ELSE Step([c1 EXCEPT !.full_data = Some(payload),
                                   !.location_id = Some(payload.locationID),
                                   !.devices = Some(IndexBy(payload.devices, FALSE, byId)),
                                   !.named_devices = Some(IndexBy(payload.devices, TRUE, byName))],
                        "none", u.nAuth, 1)
    ELSE Step(c, "none", 0, 0)

\* EvohomeClient._populate_full_data; fetchOk / payload: the answer of the
\* locations endpoint
_populate_full_data(c, force_refresh, authOk, fetchOk, payload) ==
    IF IsNone(c.full_data) \/ force_refresh
    THEN LET u == _populate_user_info(c, authOk) IN
         IF u.err # "none" THEN u
         ELSE IF u.c.headers = "None"
         \* self.headers['sessionId'] = ... on headers that are still None
         THEN Step(u.c, "TypeError", u.nAuth, 0)
         ELSE LET c1 == [u.c EXCEPT !.headers = "json+sessionId"] IN
              IF ~fetchOk THEN Step(c1, "transport", u.nAuth, 1)
              ELSE Step([c1 EXCEPT !.full_data = Some(payload),
                                   !.location_id = Some(payload.locationID),
                                   !.devices = Some(IndexBy(payload.devices, FALSE, EmptyDict)),
                                   !.named_devices = Some(IndexBy(payload.devices, TRUE, EmptyDict))],
                        "none", u.nAuth, 1)
    ELSE Step(c, "none", 0, 0)

\* the assignment of the client's fields from a record
SetClient(c) ==
    /\ user_data' = c.user_data
    /\ headers' = c.headers
    /\ full_data' = c.full_data
    /\ location_id' = c.location_id
    /\ devices' = c.devices
    /\ named_devices' = c.named_devices

\* the body of the generator of EvohomeClient.temperatures
LegacyReport(devs) ==
    [i \in 1..Len(devs) |->
        [thermostat |-> devs[i].thermostatModelType,
         id |-> devs[i].deviceID,
         name |-> devs[i].name,
         temp |-> devs[i].indoorTemperature,
         setpoint |-> IF devs[i].hasHeatSetpoint THEN devs[i].heatSetpoint ELSE 0]]

(***************************************************************************)
(* Legacy client: operations                                               *)
(***************************************************************************)
\* the client after __init__, user_data being one of uds
LStart(uds) ==
    /\ user_data \in uds
    /\ headers = "None"
    /\ full_data = NoneV
    /\ location_id = NoneV
    /\ devices = NoneV
    /\ named_devices = NoneV
    /\ lop = "none" /\ lpc = "idle" /\ lout = "none" /\ lerr = "none"
    /\ task_id = 0
    /\ lastPoll = [task |-> 0, state |-> "none"]
    /\ nAuth = 0 /\ nFetch = 0 /\ nPut = 0 /\ nPoll = 0
    /\ putDevice = NoneV
    /\ lforce = FALSE
    /\ lreport = <<>>
    /\ srvTask = 1

\* the common start of an operation: counters of the call are reset
LEnter(op, p) ==
    /\ session = "legacy"
    /\ LFrame
    /\ lpc = "idle"
    /\ lop' = op
    /\ SetClient(p.c)
    /\ nAuth' = p.nAuth
    /\ nFetch' = p.nFetch
    /\ nPoll' = 0
    /\ lastPoll' = [task |-> 0, state |-> "none"]

LRaise(err) ==
    /\ lpc' = "idle" /\ lout' = "raised" /\ lerr' = err

\* EvohomeClient.temperatures(force_refresh), the generator run to its end
LTemperatures ==
    \E force_refresh \in BOOLEAN, authOk \in BOOLEAN, fetchOk \in BOOLEAN,
       payload \in LocationPayloads :
        LET p == _populate_full_data(Client, force_refresh, authOk, fetchOk, payload) IN
        /\ LEnter("temperatures", p)
        /\ lforce' = force_refresh
        /\ nPut' = 0 /\ putDevice' = NoneV /\ task_id' = 0
        /\ UNCHANGED srvTask
        /\ IF p.err # "none"
           THEN LRaise(p.err) /\ lreport' = <<>>
           ELSE /\ lreport' = LegacyReport(The(p.c.full_data).devices)
                /\ lpc' = "idle" /\ lout' = "returned" /\ lerr' = "none"

\* EvohomeClient._get_device: named_devices[zone] for a str, devices[zone] otherwise;
\* the result is None here when the subscript raises KeyError
_get_device(c, byName, zone) ==
    LET d == IF byName THEN The(c.named_devices) ELSE The(c.devices) IN
    IF zone \in DOMAIN d THEN Some(d[zone]) ELSE NoneV

\* EvohomeClient._get_dhw_zone: the first hot-water device's id, or None
RECURSIVE _get_dhw_zone(_)
_get_dhw_zone(devs) ==
    IF devs = <<>> THEN NoneV
    ELSE IF Head(devs).thermostatModelType = "DOMESTIC_HOT_WATER"
         THEN Some(Head(devs).deviceID)
         ELSE _get_dhw_zone(Tail(devs))

\* LSubmit as it would be if a failed write were submitted a second time
LSubmitRetry(putOk, target) ==
    /\ nPut' = IF putOk THEN 1 ELSE 2
    /\ putDevice' = target
    /\ task_id' = srvTask
    /\ srvTask' = (srvTask % MaxTasks) + 1
    /\ lpc' = "poll" /\ lout' = "none" /\ lerr' = "none"

\* the write of a mutating call and what follows it up to the while loop:
\* requests.put, raise_for_status, _get_task_id
LSubmit(putOk, target) ==
    /\ nPut' = 1
    /\ putDevice' = target
    /\ IF putOk
       THEN /\ task_id' = srvTask
            /\ srvTask' = (srvTask % MaxTasks) + 1
            /\ lpc' = "poll" /\ lout' = "none" /\ lerr' = "none"
       ELSE /\ LRaise("transport")
            /\ task_id' = 0
            /\ UNCHANGED srvTask

LNoSubmit(err) ==
    /\ LRaise(err)
    /\ nPut' = 0 /\ putDevice' = NoneV /\ task_id' = 0
    /\ UNCHANGED srvTask

\* EvohomeClient._set_status up to its while loop (set_status_normal, _custom,
\* _eco, _away, _dayoff, _heatingoff all come here)
LSetStatus ==
    \E authOk \in BOOLEAN, fetchOk \in BOOLEAN, payload \in LocationPayloads,
       putOk \in BOOLEAN :
        LET p == _populate_full_data(Client, FALSE, authOk, fetchOk, payload) IN
        /\ LEnter("_set_status", p)
        /\ UNCHANGED <<lforce, lreport>>
        /\ IF p.err # "none" THEN LNoSubmit(p.err)
           ELSE LSubmit(putOk, NoneV)

\* EvohomeClient._set_heat_setpoint up to its while loop (set_temperature,
\* cancel_temp_override)
LSetHeatSetpoint ==
    \E authOk \in BOOLEAN, fetchOk \in BOOLEAN, payload \in LocationPayloads,
       putOk \in BOOLEAN, byName \in BOOLEAN :
      \E zone \in (IF byName THEN ZoneNames ELSE DeviceIds) :
        LET p == _populate_full_data(Client, FALSE, authOk, fetchOk, payload)
            dev == _get_device(p.c, byName, zone)
        IN
        /\ LEnter("_set_heat_setpoint", p)
        /\ UNCHANGED <<lforce, lreport>>
        /\ IF p.err # "none" THEN LNoSubmit(p.err)
           ELSE IF IsNone(dev) THEN LNoSubmit("KeyError")
           ELSE LSubmit(putOk, Some(The(dev).deviceID))

\* EvohomeClient._set_dhw up to its while loop (set_dhw_on, _off, _auto)
LSetDhw ==
    \E authOk \in BOOLEAN, fetchOk \in BOOLEAN, payload \in LocationPayloads,
       putOk \in BOOLEAN :
        LET p == _populate_full_data(Client, FALSE, authOk, fetchOk, payload) IN
        /\ LEnter("_set_dhw", p)
        /\ UNCHANGED <<lforce, lreport>>
        /\ IF p.err # "none" THEN LNoSubmit(p.err)
           ELSE LSubmit(putOk, _get_dhw_zone(The(p.c.full_data).devices))

\* PollOutcome as it would be if the loop gave up on a task reported as Failed
PollOutcomeGivesUp(c, task, authOk, fetchOk, payload, getOk, state) ==
    LET p == _populate_full_data(c, FALSE, authOk, fetchOk, payload)
        go == p.err = "none" /\ getOk
    IN
      [p |-> p,
       puts |-> 0,
       asked |-> p.err = "none",
       pc |-> IF go /\ state \notin {"Succeeded", "Failed"} THEN "poll" ELSE "idle",
       out |-> IF ~go \/ state = "Failed" THEN "raised"
               ELSE IF state = "Succeeded" THEN "returned" ELSE "none",
       err |-> IF p.err # "none" THEN p.err
               ELSE IF ~getOk THEN "transport"
               ELSE IF state = "Failed" THEN "TaskFailed" ELSE "none",
       last |-> IF go THEN [task |-> task, state |-> state]
                ELSE [task |-> task, state |-> "none"]]

\* what one evaluation of the while condition does:
\* "while self._get_task_status(task_id) != 'Succeeded': time.sleep(1)"
\* with _get_task_status = _populate_full_data, GET commTasks, raise_for_status.
\* puts: the PUT requests of the round (the loop sends none)
PollOutcome(c, task, authOk, fetchOk, payload, getOk, state) ==
    LET p == _populate_full_data(c, FALSE, authOk, fetchOk, payload) IN
      [p |-> p,
       puts |-> 0,
       asked |-> p.err = "none",
       pc |-> IF p.err = "none" /\ getOk /\ state # "Succeeded" THEN "poll" ELSE "idle",
       out |-> IF p.err # "none" \/ ~getOk THEN "raised"
               ELSE IF state = "Succeeded" THEN "returned" ELSE "none",
       err |-> IF p.err # "none" THEN p.err
               ELSE IF ~getOk THEN "transport" ELSE "none",
       last |-> IF p.err = "none" /\ getOk
                THEN [task |-> task, state |-> state]
                ELSE [task |-> task, state |-> "none"]]

\* one round of the while loop of a legacy write
LPoll ==
    \E authOk \in BOOLEAN, fetchOk \in BOOLEAN, payload \in LocationPayloads,
       getOk \in BOOLEAN, state \in TaskStates :
        LET o == PollOutcome(Client, task_id, authOk, fetchOk, payload, getOk, state) IN
        /\ session = "legacy"
        /\ LFrame
        /\ lpc = "poll"
        /\ SetClient(o.p.c)
        /\ nAuth' = nAuth + o.p.nAuth
        /\ nFetch' = nFetch + o.p.nFetch
        /\ nPoll' = IF o.asked THEN Min(nPoll + 1, MaxPolls) ELSE nPoll
        /\ lastPoll' = o.last
        /\ lpc' = o.pc /\ lout' = o.out /\ lerr' = o.err
        /\ nPut' = nPut + o.puts
        /\ UNCHANGED <<lop, task_id, putDevice, lforce, lreport, srvTask>>

\* EvohomeClient(username, password) or EvohomeClient(..., user_data=...)
LInit == LStart({NoneV, Some(SessionRecord)})


(***************************************************************************)
(* Control system (evohomeasync2)                                          *)
(***************************************************************************)
\* the zone identifiers of the installations: as many as the longest zone list
ZoneIdOf == <<"z1", "z2", "z3", "z4", "z5", "z6">>
ZoneIdSet == {ZoneIdOf[i] : i \in 1..MaxZones}
ZoneNameSet == {"Lounge", "Bedroom"}
DhwId == "d1"
\* vol.Length(min=1, max=12) of SCH_TEMPERATURE_CONTROL_SYSTEM
MinZonesSchema == 1
MaxZonesSchema == 12

\* zone lists of at most MaxZones zones with distinct identifiers (identifiers
\* are unique within the parent's collection), names free
ZoneConfigs ==
    UNION { { zs \in [1..n -> [zoneId : ZoneIdSet, name : ZoneNameSet]] :
                \A a, b \in 1..n : a # b => zs[a].zoneId # zs[b].zoneId } :
            n \in 0..MaxZones }

\* systemId: None (key absent), "" or an identifier; dhw: None or the dhw block
Configs ==
    [systemId : {NoneV, Some(""), Some("1234567")},
     zones : ZoneConfigs,
     dhw : {NoneV, Some(DhwId)}]

\* SCH_TEMPERATURE_CONTROL_SYSTEM, as far as the constructor reads the payload
SCH_TEMPERATURE_CONTROL_SYSTEM(c) ==
    /\ ~IsNone(c.systemId) /\ The(c.systemId) # ""
    /\ Len(c.zones) >= MinZonesSchema /\ Len(c.zones) <= MaxZonesSchema

\* the constructor's loop over config["zones"], from position i on
RECURSIVE BuildZones(_, _, _)
BuildZones(zcfg, i, o) ==
    IF i > Len(zcfg) THEN o
    ELSE LET zone == zcfg[i] IN
         BuildZones(zcfg, i + 1,
            [o EXCEPT
               !._zones = Append(o._zones, zone),
               !.zones = [n \in (DOMAIN o.zones) \cup {zone.name} |->
                             IF n = zone.name THEN zone ELSE o.zones[n]],
               !.zones_by_id = [k \in (DOMAIN o.zones_by_id) \cup {zone.zoneId} |->
                             IF k = zone.zoneId THEN zone ELSE o.zones_by_id[k]]])

\* the object as __init__ leaves it before it reads the config
EmptyTcs == [err |-> "none", _zones |-> <<>>, zones |-> EmptyDict,
             zones_by_id |-> EmptyDict, hotwater |-> NoneV]

\* ControlSystemInit as it would be if systemId were checked after the zones
\* and the hot water are built
ControlSystemInitLateCheck(c) ==
    LET o == [BuildZones(c.zones, 1, EmptyTcs) EXCEPT !.hotwater = c.dhw] IN
    IF IsNone(c.systemId) THEN [o EXCEPT !.err = "AttributeError"]
    ELSE IF The(c.systemId) = "" THEN [o EXCEPT !.err = "AssertionError"]
    ELSE o

\* ControlSystem.__init__: the object it leaves and the error it raises
ControlSystemInit(c) ==
    IF IsNone(c.systemId) THEN [EmptyTcs EXCEPT !.err = "AttributeError"]
    ELSE IF The(c.systemId) = "" THEN [EmptyTcs EXCEPT !.err = "AssertionError"]
    ELSE [BuildZones(c.zones, 1, EmptyTcs) EXCEPT !.hotwater = c.dhw]

\* datetime.strftime with API_STRFTIME = "%Y-%m-%dT%H:%M:%SZ"
DigitChar(n) == <<"0", "1", "2", "3", "4", "5", "6", "7", "8", "9">>[n + 1]
Pad2(n) == <<DigitChar((n \div 10) % 10), DigitChar(n % 10)>>
Pad4(n) == <<DigitChar((n \div 1000) % 10), DigitChar((n \div 100) % 10)>> \o Pad2(n)
strftime(t) ==
    Pad4(t.Y) \o <<"-">> \o Pad2(t.m) \o <<"-">> \o Pad2(t.d) \o <<"T">>
      \o Pad2(t.H) \o <<":">> \o Pad2(t.M) \o <<":">> \o Pad2(t.S) \o <<"Z">>

\* the end times a caller passes
Untils ==
    { [Y |-> 2023, m |-> 12, d |-> 31, H |-> 23, M |-> 59, S |-> 59],
      [Y |-> 2024, m |-> 1, d |-> 9, H |-> 0, M |-> 5, S |-> 0] }

\* the modes a caller of set_status(mode) passes in the model: one that allows
\* no end time and one that does
SystemModes == {"AutoWithReset", "Away"}

\* the public mode operations and the mode each one fixes ("" = the caller's)
ModeOps ==
    { [op |-> "set_status", mode |-> "", takesUntil |-> TRUE],
      [op |-> "set_status_normal", mode |-> "Auto", takesUntil |-> FALSE],
      [op |-> "set_status_reset", mode |-> "AutoWithReset", takesUntil |-> FALSE],
      [op |-> "set_status_custom", mode |-> "Custom", takesUntil |-> TRUE],
      [op |-> "set_status_eco", mode |-> "AutoWithEco", takesUntil |-> TRUE],
      [op |-> "set_status_away", mode |-> "Away", takesUntil |-> TRUE],
      [op |-> "set_status_dayoff", mode |-> "DayOff", takesUntil |-> TRUE],
      [op |-> "set_status_heatingoff", mode |-> "HeatingOff", takesUntil |-> TRUE] }

\* ModeBody as it would be if Permanent were set whatever the until
ModeBodyAlwaysPermanent(mode, until) ==
    IF IsNone(until)
    THEN [SystemMode |-> mode, TimeUntil |-> NoneV, Permanent |-> TRUE]
    ELSE [SystemMode |-> mode, TimeUntil |-> Some(strftime(The(until))),
          Permanent |-> TRUE]

\* the data dict of ControlSystem._set_status
ModeBody(mode, until) ==
    IF IsNone(until)
    THEN [SystemMode |-> mode, TimeUntil |-> NoneV, Permanent |-> TRUE]
    ELSE [SystemMode |-> mode, TimeUntil |-> Some(strftime(The(until))),
          Permanent |-> FALSE]

\* the status payloads of a zone: unavailable (no temperature) or a temperature
ZoneStatuses ==
    { [isAvailable |-> FALSE, temperature |-> JNull, targetHeatTemperature |-> JFloat(200)] }
    \cup { [isAvailable |-> TRUE, temperature |-> JFloat(t),
            targetHeatTemperature |-> JFloat(200)] : t \in {180, 215} }
DhwTemps == {500}

\* TcsReport as it would be if the hot-water entry were appended after the zones
TcsReportHotWaterLast(hw, zs, zst, dt) ==
    [i \in 1..Len(zs) |->
          [thermostat |-> "EMEA_ZONE", id |-> zs[i].zoneId, name |-> zs[i].name,
           temp |-> IF zst[zs[i].zoneId].isAvailable
                    THEN zst[zs[i].zoneId].temperature ELSE JNull,
           setpoint |-> zst[zs[i].zoneId].targetHeatTemperature]]
    \o (IF ~IsNone(hw)
        THEN << [thermostat |-> "DOMESTIC_HOT_WATER", id |-> The(hw), name |-> "",
                 temp |-> JFloat(dt), setpoint |-> JStr(<<>>)] >>
        ELSE <<>>)

\* the list built by ControlSystem.temperatures after the refresh
TcsReport(hw, zs, zst, dt) ==
    (IF ~IsNone(hw)
     THEN << [thermostat |-> "DOMESTIC_HOT_WATER", id |-> The(hw), name |-> "",
              temp |-> JFloat(dt), setpoint |-> JStr(<<>>)] >>
     ELSE <<>>)
    \o [i \in 1..Len(zs) |->
          [thermostat |-> "EMEA_ZONE", id |-> zs[i].zoneId, name |-> zs[i].name,
           temp |-> IF zst[zs[i].zoneId].isAvailable
                    THEN zst[zs[i].zoneId].temperature ELSE JNull,
           setpoint |-> zst[zs[i].zoneId].targetHeatTemperature]]

\* before construction, the backup file being one of files
TStart(files) ==
    /\ file \in files
    /\ submitted = <<>> /\ fetched = <<>>
    /\ bpc = "idle" /\ bidx = 1 /\ inflight = 0 /\ schedules = <<>>
    /\ config = NoneV
    /\ built = "none"
    /\ _zones = <<>> /\ zones = EmptyDict /\ zones_by_id = EmptyDict
    /\ hotwater = NoneV
    /\ zstatus = EmptyDict
    /\ dhwTemp = 0
    /\ top = "none" /\ tout = "none" /\ terr = "none"
    /\ marg = [mode |-> "", until |-> NoneV]
    /\ body = NoneV
    /\ tPut = 0 /\ tStatus = 0
    /\ treport = <<>>

\* ControlSystem(client, location, gateway, config)
Construct ==
    \E c \in Configs :
        LET o == ControlSystemInit(c) IN
        /\ session \in {"mode", "report", "schedules"}
        /\ TFrame
        /\ built = "none"
        /\ config' = Some(c)
        /\ built' = IF o.err = "none" THEN "ok" ELSE "failed"
        /\ _zones' = o._zones
        /\ zones' = o.zones
        /\ zones_by_id' = o.zones_by_id
        /\ hotwater' = o.hotwater
        /\ top' = "__init__"
        /\ tout' = IF o.err = "none" THEN "returned" ELSE "raised"
        /\ terr' = o.err
        /\ UNCHANGED <<zstatus, dhwTemp, marg, body, tPut, tStatus, treport,
                       file, submitted, fetched, bvars>>

\* the results of the previous call, which every call starts without
TFresh(op) ==
    /\ TFrame
    /\ built = "ok"
    /\ bpc = "idle"
    /\ top' = op
    /\ UNCHANGED <<config, built, _zones, zones, zones_by_id, hotwater>>

\* ControlSystem._set_status(mode, until=until): the headers, the data dict,
\* one PUT, raise_for_status.  puts: the PUT requests it sent
_set_status(mode, until, headersOk, putOk) ==
    IF ~headersOk
    THEN [body |-> NoneV, puts |-> 0, out |-> "raised", err |-> "transport"]
    ELSE [body |-> Some(ModeBody(mode, until)), puts |-> 1,
          out |-> IF putOk THEN "returned" ELSE "raised",
          err |-> IF putOk THEN "none" ELSE "transport"]

\* ControlSystem.set_status and the set_status_* operations, each one a call
\* of _set_status with its mode and the caller's until
TSetStatus ==
    /\ session = "mode"
    /\ \E o \in ModeOps, headersOk \in BOOLEAN, putOk \in BOOLEAN :
       \E mode \in (IF o.mode = "" THEN SystemModes ELSE {o.mode}),
          until \in (IF o.takesUntil THEN {NoneV} \cup {Some(t) : t \in Untils}
                     ELSE {NoneV}) :
        LET r == _set_status(mode, until, headersOk, putOk) IN
        /\ TFresh(o.op)
        /\ marg' = [mode |-> mode, until |-> until]
        /\ tStatus' = 0 /\ treport' = <<>>
        /\ UNCHANGED <<zstatus, dhwTemp, file>>
        /\ submitted' = <<>> /\ fetched' = <<>>
        /\ UNCHANGED bvars
        /\ body' = r.body
        /\ tPut' = r.puts
        /\ tout' = r.out
        /\ terr' = r.err

\* ControlSystem.temperatures: location.status() refreshes the zones and the
\* hot water in place, then the list is built
TTemperatures ==
    \E statusOk \in BOOLEAN, dt \in DhwTemps,
       zst \in [{_zones[i].zoneId : i \in 1..Len(_zones)} -> ZoneStatuses] :
        /\ session = "report"
        /\ TFresh("temperatures")
        /\ marg' = [mode |-> "", until |-> NoneV]
        /\ body' = NoneV /\ tPut' = 0
        /\ tStatus' = 1
        /\ UNCHANGED file
        /\ submitted' = <<>> /\ fetched' = <<>>
        /\ UNCHANGED bvars
        /\ IF statusOk
           THEN /\ zstatus' = zst
                /\ dhwTemp' = IF IsNone(hotwater) THEN dhwTemp ELSE dt
                /\ treport' = TcsReport(hotwater, _zones, zst, dt)
                /\ tout' = "returned" /\ terr' = "none"
           ELSE /\ UNCHANGED <<zstatus, dhwTemp>>
                /\ treport' = <<>>
                /\ tout' = "raised" /\ terr' = "transport"

TInit == TStart({NoneV})


(***************************************************************************)
(* Schedule schemas (evohomeasync2.schema.schedule)                        *)
(***************************************************************************)
\* the key and value strings of schema.const, as sequences of characters
SZ_DAILY_SCHEDULES == <<"d", "a", "i", "l", "y", "S", "c", "h", "e", "d", "u", "l", "e", "s">>
SZ_DAY_OF_WEEK == <<"d", "a", "y", "O", "f", "W", "e", "e", "k">>
SZ_DHW_STATE == <<"d", "h", "w", "S", "t", "a", "t", "e">>
SZ_HEAT_SETPOINT == <<"h", "e", "a", "t", "S", "e", "t", "p", "o", "i", "n", "t">>
SZ_SWITCHPOINTS == <<"s", "w", "i", "t", "c", "h", "p", "o", "i", "n", "t", "s">>
SZ_TIME_OF_DAY == <<"t", "i", "m", "e", "O", "f", "D", "a", "y">>
SZ_ON == <<"O", "n">>
SZ_OFF == <<"O", "f", "f">>
SZ_MONDAY == <<"M", "o", "n", "d", "a", "y">>
SZ_TUESDAY == <<"T", "u", "e", "s", "d", "a", "y">>
SZ_WEDNESDAY == <<"W", "e", "d", "n", "e", "s", "d", "a", "y">>
SZ_THURSDAY == <<"T", "h", "u", "r", "s", "d", "a", "y">>
SZ_FRIDAY == <<"F", "r", "i", "d", "a", "y">>
SZ_SATURDAY == <<"S", "a", "t", "u", "r", "d", "a", "y">>
SZ_SUNDAY == <<"S", "u", "n", "d", "a", "y">>

LowerCase == <<"a", "b", "c", "d", "e", "f", "g", "h", "i", "j", "k", "l", "m", "n", "o", "p", "q", "r", "s", "t", "u", "v", "w", "x", "y", "z">>
UpperCase == <<"A", "B", "C", "D", "E", "F", "G", "H", "I", "J", "K", "L", "M", "N", "O", "P", "Q", "R", "S", "T", "U", "V", "W", "X", "Y", "Z">>

\* str.upper / str.lower of one character
ToUpper(c) ==
    IF \E i \in 1..26 : LowerCase[i] = c
    THEN UpperCase[CHOOSE i \in 1..26 : LowerCase[i] = c] ELSE c
ToLower(c) ==
    IF \E i \in 1..26 : UpperCase[i] = c
    THEN LowerCase[CHOOSE i \in 1..26 : UpperCase[i] = c] ELSE c

\* str.capitalize(): the first character upper-cased, all the others lower-cased
capitalize(w) ==
    [i \in 1..Len(w) |-> IF i = 1 THEN ToUpper(w[i]) ELSE ToLower(w[i])]

DAYS_OF_WEEK == <<SZ_MONDAY, SZ_TUESDAY, SZ_WEDNESDAY, SZ_THURSDAY, SZ_FRIDAY,
                  SZ_SATURDAY, SZ_SUNDAY>>

\* vol.Range(min=5, max=35), in tenths
MinSetpoint == 50
MaxSetpoint == 350
\* vol.Range(min=0, max=6) of the PUT day of week
MinDay == 0
MaxDay == 6

Range(v, lo, hi) == v >= lo /\ v <= hi

IsDigit(c) == \E n \in 0..9 : DigitChar(n) = c
DigitVal(c) == CHOOSE n \in 0..9 : DigitChar(n) = c
\* the number written by the digits w[a..b]
RECURSIVE NumVal(_, _, _)
NumVal(w, a, b) == IF b < a THEN 0 ELSE 10 * NumVal(w, a, b - 1) + DigitVal(w[b])

\* vol.Datetime(format="%H:%M:00"): datetime.strptime accepts the string; %H
\* is one or two digits up to 23, %M one or two digits up to 59
Datetime_HM00(v) ==
    /\ v.t = "str"
    /\ \E h \in 1..2, m \in 1..2 :
         LET w == v.s IN
         /\ Len(w) = h + m + 4
         /\ \A k \in 1..h : IsDigit(w[k])
         /\ w[h + 1] = ":"
         /\ \A k \in (h + 2)..(h + 1 + m) : IsDigit(w[k])
         /\ SubSeq(w, h + m + 2, h + m + 4) = <<":", "0", "0">>
         /\ NumVal(w, 1, h) <= 23
         /\ NumVal(w, h + 2, h + 1 + m) <= 59

\* vol.Any(SZ_ON, SZ_OFF)
AnyOnOff(v) == v.t = "str" /\ v.s \in {SZ_ON, SZ_OFF}

\* FloatInRange as it would be if the range excluded its bounds
FloatInRangeOpen(v) == v.t = "float" /\ v.i > MinSetpoint /\ v.i < MaxSetpoint

\* vol.All(float, vol.Range(min=5, max=35))
FloatInRange(v) == v.t = "float" /\ Range(v.i, MinSetpoint, MaxSetpoint)

\* vol.Any(list(DAYS_OF_WEEK)): a list schema, the value is a list whose items
\* are each one of the day names
AnyDayList(v) ==
    /\ v.t = "list"
    /\ \A k \in 1..Len(v.l) :
         v.l[k].t = "str" /\ \E n \in 1..7 : DAYS_OF_WEEK[n] = v.l[k].s

\* vol.Any(vol.All(int, vol.Range(min=0, max=6)))
IntDay(v) == v.t = "int" /\ Range(v.i, MinDay, MaxDay)

\* vol.Schema({vol.Required(k): ...}, extra=vol.PREVENT_EXTRA): a dict with
\* exactly the keys ks
DictOf(v, ks) == v.t = "dict" /\ DOMAIN v.d = ks

SCH_GET_SWITCHPOINT_DHW(v) ==
    /\ DictOf(v, {SZ_DHW_STATE, SZ_TIME_OF_DAY})
    /\ AnyOnOff(v.d[SZ_DHW_STATE])
    /\ Datetime_HM00(v.d[SZ_TIME_OF_DAY])

SCH_GET_SWITCHPOINT_ZONE(v) ==
    /\ DictOf(v, {SZ_HEAT_SETPOINT, SZ_TIME_OF_DAY})
    /\ FloatInRange(v.d[SZ_HEAT_SETPOINT])
    /\ Datetime_HM00(v.d[SZ_TIME_OF_DAY])

SCH_GET_DAY_OF_WEEK_DHW(v) ==
    /\ DictOf(v, {SZ_DAY_OF_WEEK, SZ_SWITCHPOINTS})
    /\ AnyDayList(v.d[SZ_DAY_OF_WEEK])
    /\ v.d[SZ_SWITCHPOINTS].t = "list"
    /\ \A k \in 1..Len(v.d[SZ_SWITCHPOINTS].l) :
         SCH_GET_SWITCHPOINT_DHW(v.d[SZ_SWITCHPOINTS].l[k])

SCH_GET_DAY_OF_WEEK_ZONE(v) ==
    /\ DictOf(v, {SZ_DAY_OF_WEEK, SZ_SWITCHPOINTS})
    /\ AnyDayList(v.d[SZ_DAY_OF_WEEK])
    /\ v.d[SZ_SWITCHPOINTS].t = "list"
    /\ \A k \in 1..Len(v.d[SZ_SWITCHPOINTS].l) :
         SCH_GET_SWITCHPOINT_ZONE(v.d[SZ_SWITCHPOINTS].l[k])

SCH_GET_SCHEDULE_DHW(v) ==
    /\ DictOf(v, {SZ_DAILY_SCHEDULES})
    /\ v.d[SZ_DAILY_SCHEDULES].t = "list"
    /\ \A k \in 1..Len(v.d[SZ_DAILY_SCHEDULES].l) :
         SCH_GET_DAY_OF_WEEK_DHW(v.d[SZ_DAILY_SCHEDULES].l[k])

SCH_GET_SCHEDULE_ZONE(v) ==
    /\ DictOf(v, {SZ_DAILY_SCHEDULES})
    /\ v.d[SZ_DAILY_SCHEDULES].t = "list"
    /\ \A k \in 1..Len(v.d[SZ_DAILY_SCHEDULES].l) :
         SCH_GET_DAY_OF_WEEK_ZONE(v.d[SZ_DAILY_SCHEDULES].l[k])

SCH_GET_SCHEDULE(v) == SCH_GET_SCHEDULE_DHW(v) \/ SCH_GET_SCHEDULE_ZONE(v)

SCH_PUT_SWITCHPOINT_DHW(v) ==
    /\ DictOf(v, {capitalize(SZ_DHW_STATE), capitalize(SZ_TIME_OF_DAY)})
    /\ AnyOnOff(v.d[capitalize(SZ_DHW_STATE)])
    /\ Datetime_HM00(v.d[capitalize(SZ_TIME_OF_DAY)])

SCH_PUT_SWITCHPOINT_ZONE(v) ==
    /\ DictOf(v, {SZ_HEAT_SETPOINT, capitalize(SZ_TIME_OF_DAY)})
    /\ FloatInRange(v.d[SZ_HEAT_SETPOINT])
    /\ Datetime_HM00(v.d[capitalize(SZ_TIME_OF_DAY)])

SCH_PUT_DAY_OF_WEEK_DHW(v) ==
    /\ DictOf(v, {capitalize(SZ_DAY_OF_WEEK), capitalize(SZ_SWITCHPOINTS)})
    /\ IntDay(v.d[capitalize(SZ_DAY_OF_WEEK)])
    /\ v.d[capitalize(SZ_SWITCHPOINTS)].t = "list"
    /\ \A k \in 1..Len(v.d[capitalize(SZ_SWITCHPOINTS)].l) :
         SCH_PUT_SWITCHPOINT_DHW(v.d[capitalize(SZ_SWITCHPOINTS)].l[k])

SCH_PUT_DAY_OF_WEEK_ZONE(v) ==
    /\ DictOf(v, {capitalize(SZ_DAY_OF_WEEK), capitalize(SZ_SWITCHPOINTS)})
    /\ IntDay(v.d[capitalize(SZ_DAY_OF_WEEK)])
    /\ v.d[capitalize(SZ_SWITCHPOINTS)].t = "list"
    /\ \A k \in 1..Len(v.d[capitalize(SZ_SWITCHPOINTS)].l) :
         SCH_PUT_SWITCHPOINT_ZONE(v.d[capitalize(SZ_SWITCHPOINTS)].l[k])

SCH_PUT_SCHEDULE_DHW(v) ==
    /\ DictOf(v, {capitalize(SZ_DAILY_SCHEDULES)})
    /\ v.d[capitalize(SZ_DAILY_SCHEDULES)].t = "list"
    /\ \A k \in 1..Len(v.d[capitalize(SZ_DAILY_SCHEDULES)].l) :
         SCH_PUT_DAY_OF_WEEK_DHW(v.d[capitalize(SZ_DAILY_SCHEDULES)].l[k])

SCH_PUT_SCHEDULE_ZONE(v) ==
    /\ DictOf(v, {capitalize(SZ_DAILY_SCHEDULES)})
    /\ v.d[capitalize(SZ_DAILY_SCHEDULES)].t = "list"
    /\ \A k \in 1..Len(v.d[capitalize(SZ_DAILY_SCHEDULES)].l) :
         SCH_PUT_DAY_OF_WEEK_ZONE(v.d[capitalize(SZ_DAILY_SCHEDULES)].l[k])

SCH_PUT_SCHEDULE(v) == SCH_PUT_SCHEDULE_DHW(v) \/ SCH_PUT_SCHEDULE_ZONE(v)

(***************************************************************************)
(* Schedule backup and restore (ControlSystem)                             *)
(***************************************************************************)
TimeSix == JStr(<<"0", "6", ":", "0", "0", ":", "0", "0">>)

\* the schedules the server answers a schedule fetch with: GET wire format,
\* seven days, one switchpoint a day
GetZoneDoc(sp) ==
    JDict(SZ_DAILY_SCHEDULES :> JList(
        [n \in 1..7 |->
            JDict(SZ_DAY_OF_WEEK :> JStr(DAYS_OF_WEEK[n]) @@
                  SZ_SWITCHPOINTS :> JList(<<
                      JDict(SZ_HEAT_SETPOINT :> JFloat(IF n = 1 THEN sp ELSE 210) @@
                            SZ_TIME_OF_DAY :> TimeSix) >>))]))

GetDhwDoc(st) ==
    JDict(SZ_DAILY_SCHEDULES :> JList(
        [n \in 1..7 |->
            JDict(SZ_DAY_OF_WEEK :> JStr(DAYS_OF_WEEK[n]) @@
                  SZ_SWITCHPOINTS :> JList(<<
                      JDict(SZ_DHW_STATE :> JStr(IF n = 1 THEN st ELSE SZ_ON) @@
                            SZ_TIME_OF_DAY :> TimeSix) >>))]))

ZoneDocsSrv == {GetZoneDoc(180), GetZoneDoc(215)}
DhwDocsSrv == {GetDhwDoc(SZ_OFF)}

\* an entry of the backup document: "<id>": {"name": ..., "schedule": ...}
Entry(id, name, doc) == [id |-> id, name |-> name, schedule |-> doc]

\* backup files found on disk that this control system did not write
OtherFiles ==
    { << Entry("z1", "Lounge", GetZoneDoc(180)),
         Entry("z9", "Attic", GetZoneDoc(215)),
         Entry("z2", "Bedroom", GetZoneDoc(180)) >> }

\* HotWater.zoneId: the identifier of the hot-water unit
HotWaterZoneId(hw) == The(hw)

\* the entities zone_schedules_backup reads, in its order: hot water, then _zones
BackupEntities(hw, zs) ==
    (IF ~IsNone(hw) THEN << [id |-> HotWaterZoneId(hw), name |-> "Domestic Hot Water",
                             dhw |-> TRUE, pos |-> 0] >> ELSE <<>>)
    \o [i \in 1..Len(zs) |-> [id |-> zs[i].zoneId, name |-> zs[i].name,
                              dhw |-> FALSE, pos |-> i]]

\* schedules[id] = {"name": name, "schedule": schedule}: a new key goes to
\* the end, a key already there keeps its place
SetItem(acc, ent) ==
    LET at == { k \in 1..Len(acc) : acc[k].id = ent.id } IN
    IF at = {} THEN Append(acc, ent)
    ELSE [k \in 1..Len(acc) |-> IF k \in at THEN ent ELSE acc[k]]

\* BackupRequests as it would be if the fetches were all sent at the start
\* and awaited together
BackupRequestsAtOnce(es, i) ==
    IF i = 1 THEN [k \in 1..Len(es) |-> es[k].id] ELSE <<>>

\* the schedule fetches zone_schedules_backup sends when it turns to entity
\* i: "await entity.schedule()" for that entity, none past the last one
BackupRequests(es, i) == IF i <= Len(es) THEN <<es[i].id>> ELSE <<>>

\* ControlSystem.zone_schedules_backup up to its first await; without any
\* entity it goes straight to writing the file
BackupBegin ==
    LET es == BackupEntities(hotwater, _zones)
        rq == BackupRequests(es, 1)
    IN
    /\ session = "schedules"
    /\ TFresh("zone_schedules_backup")
    /\ marg' = [mode |-> "", until |-> NoneV]
    /\ body' = NoneV /\ tPut' = 0 /\ tStatus' = 0 /\ treport' = <<>>
    /\ submitted' = <<>>
    /\ UNCHANGED <<zstatus, dhwTemp>>
    /\ schedules' = <<>>
    /\ bidx' = 1
    /\ fetched' = rq
    /\ inflight' = Len(rq)
    /\ terr' = "none"
    /\ IF es = <<>>
       THEN file' = Some(<<>>) /\ bpc' = "idle" /\ tout' = "returned"
       ELSE UNCHANGED file /\ bpc' = "await" /\ tout' = "none"

\* zone_schedules_backup from the answer to the fetch it awaits to its next
\* await, or to its end: the schedule goes into the dict and the next entity
\* is fetched, or the file is written after the last one; a fetch that fails
\* raises out of the operation
BackupReply ==
    \E ok \in BOOLEAN, doc \in ZoneDocsSrv \cup DhwDocsSrv :
        LET es == BackupEntities(hotwater, _zones)
            e == es[bidx]
            rq == BackupRequests(es, bidx + 1)
            sch == SetItem(schedules, Entry(e.id, e.name, doc))
        IN
        /\ session = "schedules"
        /\ TFrame
        /\ bpc = "await"
        /\ doc \in (IF e.dhw THEN DhwDocsSrv ELSE ZoneDocsSrv)
        /\ UNCHANGED <<config, built, _zones, zones, zones_by_id, hotwater, zstatus,
                       dhwTemp, top, marg, body, tPut, tStatus, treport, submitted>>
        /\ inflight' = inflight - 1 + (IF ok THEN Len(rq) ELSE 0)
        /\ IF ~ok
           THEN /\ bpc' = "idle" /\ tout' = "raised" /\ terr' = "transport"
                /\ schedules' = <<>> /\ bidx' = 1
                /\ UNCHANGED <<file, fetched>>
           ELSE /\ fetched' = fetched \o rq
                /\ terr' = "none"
                /\ IF bidx = Len(es)
                   THEN /\ file' = Some(sch)
                        /\ schedules' = <<>> /\ bidx' = 1
                        /\ bpc' = "idle" /\ tout' = "returned"
                   ELSE /\ UNCHANGED file
                        /\ schedules' = sch /\ bidx' = bidx + 1
                        /\ bpc' = "await" /\ tout' = "none"

\* RestoreLoop as it would be if an unknown identifier were skipped
RECURSIVE RestoreLoopSkip(_, _, _, _, _, _)
RestoreLoopSkip(es, i, hw, byId, failAt, sub) ==
    IF i > Len(es) THEN [sub |-> sub, err |-> "none"]
    ELSE LET e == es[i]
             isHw == ~IsNone(hw) /\ HotWaterZoneId(hw) = e.id
             req == [pos |-> i, id |-> e.id, dhw |-> isHw, doc |-> e.schedule]
         IN IF ~isHw /\ e.id \notin DOMAIN byId
            THEN RestoreLoopSkip(es, i + 1, hw, byId, failAt, sub)
            ELSE IF failAt = i
            THEN [sub |-> Append(sub, req), err |-> "transport"]
            ELSE RestoreLoopSkip(es, i + 1, hw, byId, failAt, Append(sub, req))

\* the loop of zone_schedules_restore from entry i on; failAt: the
\* set_schedule request that raises (0: none).  sub: the requests submitted
RECURSIVE RestoreLoop(_, _, _, _, _, _)
RestoreLoop(es, i, hw, byId, failAt, sub) ==
    IF i > Len(es) THEN [sub |-> sub, err |-> "none"]
    ELSE LET e == es[i]
             isHw == ~IsNone(hw) /\ HotWaterZoneId(hw) = e.id
             req == [pos |-> i, id |-> e.id, dhw |-> isHw, doc |-> e.schedule]
         IN IF ~isHw /\ e.id \notin DOMAIN byId
            THEN [sub |-> sub, err |-> "KeyError"]
            ELSE IF failAt = i
            THEN [sub |-> Append(sub, req), err |-> "transport"]
            ELSE RestoreLoop(es, i + 1, hw, byId, failAt, Append(sub, req))

\* ControlSystem.zone_schedules_restore
Restore ==
    \E failAt \in 0..(MaxZones + 1) :
        LET r == IF IsNone(file) THEN [sub |-> <<>>, err |-> "FileNotFoundError"]
                 ELSE RestoreLoop(The(file), 1, hotwater, zones_by_id, failAt, <<>>)
        IN
        /\ session = "schedules"
        /\ (IsNone(file) => failAt = 0)
        /\ (~IsNone(file) => failAt <= Len(The(file)))
        /\ TFresh("zone_schedules_restore")
        /\ marg' = [mode |-> "", until |-> NoneV]
        /\ body' = NoneV /\ tStatus' = 0 /\ treport' = <<>> /\ fetched' = <<>>
        /\ UNCHANGED bvars
        /\ tPut' = Len(r.sub)
        /\ submitted' = r.sub
        /\ tout' = IF r.err = "none" THEN "returned" ELSE "raised"
        /\ terr' = r.err
        /\ UNCHANGED <<zstatus, dhwTemp, file>>

BInit == TStart({NoneV} \cup {Some(f) : f \in OtherFiles})

(***************************************************************************)
(* Schedule documents put to the PUT and GET schemas                       *)
(***************************************************************************)

\* Pascal case: the first character upper-cased, the others kept
PascalCase(w) == [i \in 1..Len(w) |-> IF i = 1 THEN ToUpper(w[i]) ELSE w[i]]

\* the spellings of a key that a document may use
Spellings(w) == {w, PascalCase(w), capitalize(w)}

\* how a document is written: zone or hot-water schedule, the spelling of each
\* key (val: heatSetpoint / dhwState) and the form of the day of week
KeyChoices ==
    UNION { [kind : {k},
             daily : Spellings(SZ_DAILY_SCHEDULES),
             day : Spellings(SZ_DAY_OF_WEEK),
             sw : Spellings(SZ_SWITCHPOINTS),
             tod : Spellings(SZ_TIME_OF_DAY),
             val : Spellings(IF k = "zone" THEN SZ_HEAT_SETPOINT ELSE SZ_DHW_STATE),
             dayv : {"int", "name", "list"}] : k \in {"zone", "dhw"} }

DayValue(form) ==
    IF form = "int" THEN JInt(0)
    ELSE IF form = "name" THEN JStr(SZ_MONDAY)
    ELSE JList(<<JStr(SZ_MONDAY)>>)

\* the one-day, one-switchpoint document written that way, its values valid
MakeDoc(k) ==
    JDict(k.daily :> JList(<<
        JDict(k.day :> DayValue(k.dayv) @@
              k.sw :> JList(<<
                  JDict(k.val :> (IF k.kind = "zone" THEN JFloat(200) ELSE JStr(SZ_ON)) @@
                        k.tod :> TimeSix) >>)) >>))

Verdict(b) == IF b THEN "accepted" ELSE "rejected"

SInit ==
    /\ skeys \in KeyChoices
    /\ sdoc = MakeDoc(skeys)
    /\ sput = "none" /\ sget = "none"

\* SCH_PUT_SCHEDULE(document)
ValidatePut ==
    /\ session = "schema"
    /\ SFrame
    /\ sput = "none"
    /\ sput' = Verdict(SCH_PUT_SCHEDULE(sdoc))
    /\ UNCHANGED <<skeys, sdoc, sget>>

\* SCH_GET_SCHEDULE(document)
ValidateGet ==
    /\ session \in {"schema", "week"}
    /\ SFrame
    /\ sget = "none"
    /\ sget' = Verdict(SCH_GET_SCHEDULE(sdoc))
    /\ UNCHANGED <<skeys, sdoc, sput>>

(***************************************************************************)
(* Day entries, switchpoints and weeks put to the GET / PUT schemas        *)
(***************************************************************************)
\* a valid switchpoint of a zone or of the hot water, GET wire format
GetSwitchpoint(kind) ==
    JDict((IF kind = "zone" THEN SZ_HEAT_SETPOINT :> JFloat(200)
                            ELSE SZ_DHW_STATE :> JStr(SZ_ON))
          @@ SZ_TIME_OF_DAY :> TimeSix)

\* the values a day entry is given as its dayOfWeek: the seven names, other
\* strings, values that are no string, and lists of names
DayOfWeekValues ==
    { JStr(DAYS_OF_WEEK[n]) : n \in 1..7 }
    \cup { JStr(<<"m", "o", "n", "d", "a", "y">>), JStr(<<"M", "o", "n">>),
           JStr(<<"F", "u", "n", "d", "a", "y">>), JStr(<<>>),
           JInt(0), JNull,
           JList(<<>>), JList(<<JStr(SZ_MONDAY)>>),
           JList(<<JStr(SZ_MONDAY), JStr(SZ_SUNDAY)>>),
           JList(<<JStr(<<"F", "u", "n", "d", "a", "y">>)>>) }

\* a day entry {"dayOfWeek": v, "switchpoints": [one valid switchpoint]}
DayEntry(kind, v) ==
    JDict(SZ_DAY_OF_WEEK :> v @@ SZ_SWITCHPOINTS :> JList(<<GetSwitchpoint(kind)>>))

DInit ==
    /\ skeys \in [part : {"day"}, kind : {"zone", "dhw"}, value : DayOfWeekValues]
    /\ sdoc = DayEntry(skeys.kind, skeys.value)
    /\ sput = "none" /\ sget = "none"

\* SCH_GET_DAY_OF_WEEK_ZONE(entry) / SCH_GET_DAY_OF_WEEK_DHW(entry)
ValidateDayEntry ==
    /\ session = "dayentry"
    /\ SFrame
    /\ sget = "none"
    /\ sget' = Verdict(IF skeys.kind = "zone" THEN SCH_GET_DAY_OF_WEEK_ZONE(sdoc)
                                              ELSE SCH_GET_DAY_OF_WEEK_DHW(sdoc))
    /\ UNCHANGED <<skeys, sdoc, sput>>

\* the values a zone switchpoint is given as its heatSetpoint: JSON numbers
\* with a fraction (tenths of a degree), JSON integers, and values that are no
\* number
SetpointValues ==
    { JFloat(t) : t \in {-10, 0, 49, 50, 51, 200, 349, 350, 351, 1000} }
    \cup { JInt(n) : n \in {4, 5, 20, 35, 36} }
    \cup { JStr(<<"2", "0", ".", "0">>), JNull }

\* a zone switchpoint in the GET or the PUT wire format
Switchpoint(wire, v) ==
    JDict(SZ_HEAT_SETPOINT :> v
          @@ (IF wire = "GET" THEN SZ_TIME_OF_DAY ELSE capitalize(SZ_TIME_OF_DAY))
             :> TimeSix)

PInit ==
    /\ skeys \in [part : {"switchpoint"}, wire : {"GET", "PUT"}, value : SetpointValues]
    /\ sdoc = Switchpoint(skeys.wire, skeys.value)
    /\ sput = "none" /\ sget = "none"

\* SCH_GET_SWITCHPOINT_ZONE(switchpoint)
ValidateGetSwitchpoint ==
    /\ session = "switchpoint"
    /\ SFrame
    /\ sget = "none"
    /\ sget' = Verdict(SCH_GET_SWITCHPOINT_ZONE(sdoc))
    /\ UNCHANGED <<skeys, sdoc, sput>>

\* SCH_PUT_SWITCHPOINT_ZONE(switchpoint)
ValidatePutSwitchpoint ==
    /\ session = "switchpoint"
    /\ SFrame
    /\ sput = "none"
    /\ sput' = Verdict(SCH_PUT_SWITCHPOINT_ZONE(sdoc))
    /\ UNCHANGED <<skeys, sdoc, sget>>

\* the days a schedule document lists, as indexes into DAYS_OF_WEEK: a full
\* week, no day, one day, a day missing, a day repeated (in place of another,
\* and on top of a full week)
WeekShapes ==
    { <<1, 2, 3, 4, 5, 6, 7>>, <<>>, <<1>>, <<1, 2, 3, 4, 5, 6>>,
      <<1, 1, 2, 3, 4, 5, 6>>, <<1, 2, 3, 4, 5, 6, 7, 1>>,
      <<7, 6, 5, 4, 3, 2, 1>> }

\* the schedule document listing those days, each dayOfWeek written as the
\* name or as a one-item list of the name
WeekDoc(kind, form, days) ==
    JDict(SZ_DAILY_SCHEDULES :> JList(
        [k \in 1..Len(days) |->
            DayEntry(kind, IF form = "name" THEN JStr(DAYS_OF_WEEK[days[k]])
                           ELSE JList(<<JStr(DAYS_OF_WEEK[days[k]])>>))]))

WInit ==
    /\ skeys \in [part : {"week"}, kind : {"zone", "dhw"}, form : {"name", "list"},
                  days : WeekShapes]
    /\ sdoc = WeekDoc(skeys.kind, skeys.form, skeys.days)
    /\ sput = "none" /\ sget = "none"

(***************************************************************************)
(* Specification                                                           *)
(***************************************************************************)
\* no document is under validation outside the schema session
SIdle == skeys = NoneV /\ sdoc = JNull /\ sput = "none" /\ sget = "none"

Init ==
    /\ session \in Sessions
    /\ IF session = "legacy" THEN LInit ELSE LStart({NoneV})
    /\ IF session = "schedules" THEN BInit ELSE TInit
    /\ CASE session = "schema" -> SInit
         [] session = "dayentry" -> DInit
         [] session = "switchpoint" -> PInit
         [] session = "week" -> WInit
         [] OTHER -> SIdle

Next ==
    \/ LTemperatures \/ LSetStatus \/ LSetHeatSetpoint \/ LSetDhw \/ LPoll
    \/ Construct \/ TSetStatus \/ TTemperatures \/ BackupBegin \/ BackupReply
    \/ Restore
    \/ ValidatePut \/ ValidateGet
    \/ ValidateDayEntry \/ ValidateGetSwitchpoint \/ ValidatePutSwitchpoint

Spec == Init /\ [][Next]_vars

(***************************************************************************)
(* Properties                                                              *)
(***************************************************************************)

\* C1: every temperatures() call that returns a report has fetched the status
\* / location data through the transport in that same call: the control
\* system's temperatures(), and the legacy temperatures() called with its
\* default arguments (force_refresh = False), after any earlier calls.
C1_FreshFetchEveryCall ==
    /\ (top = "temperatures" /\ tout = "returned") => tStatus >= 1
    /\ (lop = "temperatures" /\ lout = "returned" /\ ~lforce) => nFetch >= 1

\* C2: a legacy write returns only out of a task-status check that asked for
\* the task id of its own write and was told "Succeeded"; a check that reports
\* any other state is followed by another check, however many came before;
\* and the loop ends by raising only when a status check raised a transport
\* error.
C2_PollStep ==
    /\ (lop' \in LegacyWrites /\ lout' = "returned")
          => /\ lpc = "poll"
             /\ lop' = lop
             /\ lastPoll' = [task |-> task_id, state |-> "Succeeded"]
    /\ (lpc = "poll" /\ lastPoll'.state \in TaskStates \ {"Succeeded"})
          => /\ lpc' = "poll" /\ lout' = "none"
             /\ lastPoll'.task = task_id
    /\ (lpc = "poll" /\ lout' = "raised")
          => /\ lerr' = "transport"
             /\ lastPoll'.state = "none"
    /\ (lpc = "poll" /\ lpc' = "idle") => lout' \in {"returned", "raised"}

C2_PollUntilSucceeded == [][C2_PollStep]_vars

\* C2 witness: a write still polling after MaxPolls checks, the task reported
\* as Failed
C2_Witness ==
    /\ lop \in LegacyWrites /\ lpc = "poll"
    /\ nPoll = MaxPolls /\ lastPoll.state = "Failed"

\* C3: one mutating call submits its write (PUT) at most once: the legacy
\* writes through all their polling rounds and whether or not anything
\* failed, and the control system's mode change.
C3_WriteSubmittedAtMostOnce ==
    /\ nPut <= 1
    /\ (lop \in LegacyWrites /\ (lpc = "poll" \/ lout = "returned")) => nPut = 1
    /\ (session = "mode" /\ built = "ok") => tPut <= 1
    /\ (session = "mode" /\ tout = "returned" /\ top # "__init__") => tPut = 1

\* C3 witness: a legacy write that failed in its polling after several rounds
C3_Witness ==
    /\ lop \in LegacyWrites /\ lout = "raised" /\ lerr = "transport"
    /\ nPoll >= 2 /\ nPut = 1

\* the position of the first entry of a backup document whose identifier is
\* neither the hot-water unit's nor a zone's, 0 when there is none
FirstUnknown(es) ==
    LET unknown == { k \in 1..Len(es) :
                       /\ ~(~IsNone(hotwater) /\ HotWaterZoneId(hotwater) = es[k].id)
                       /\ \A i \in 1..Len(_zones) : _zones[i].zoneId # es[k].id }
    IN IF unknown = {} THEN 0 ELSE CHOOSE k \in unknown : \A j \in unknown : k <= j

\* C4: a restore of a document with an unknown identifier never returns
\* normally and submits no schedule-set request for the unknown entry or for
\* any entry after it; it raises the lookup failure (KeyError) having submitted
\* exactly the entries before the unknown one, in document order, unless one
\* of those earlier requests failed in the transport and ended the call first.
C4_RestoreFailFast ==
    (top = "zone_schedules_restore" /\ ~IsNone(file) /\ FirstUnknown(The(file)) > 0)
    => LET es == The(file)
           u == FirstUnknown(es)
       IN /\ tout = "raised"
          /\ terr \in {"KeyError", "transport"}
          /\ \A k \in 1..Len(submitted) :
                /\ submitted[k].pos = k /\ k < u
                /\ submitted[k].id = es[k].id
          /\ terr = "KeyError" => Len(submitted) = u - 1
          /\ terr = "transport" => Len(submitted) >= 1

\* C4 witness: a restore that raised the lookup failure after submitting an
\* earlier entry, with a known entry left after the unknown one
C4_Witness ==
    /\ top = "zone_schedules_restore" /\ terr = "KeyError"
    /\ Len(submitted) = 1
    /\ Len(The(file)) = 3
    /\ \E i \in 1..Len(_zones) : _zones[i].zoneId = The(file)[3].id

\* a key of a document, whatever the case of its letters
Lowered(w) == [i \in 1..Len(w) |-> ToLower(w[i])]
HasField(v, w) == \E k \in DOMAIN v.d : Lowered(k) = Lowered(w)
Field(v, w) == v.d[CHOOSE k \in DOMAIN v.d : Lowered(k) = Lowered(w)]

\* the day a day entry is for, 0 = Monday, from a day name or a number
DayNumber(v) ==
    IF v.t = "int" THEN v.i
    ELSE IF \E n \in 1..7 : DAYS_OF_WEEK[n] = v.s
         THEN (CHOOSE n \in 1..7 : DAYS_OF_WEEK[n] = v.s) - 1
         ELSE -1

\* the days and switchpoint values a schedule document carries
ScheduleValues(doc) ==
    LET days == Field(doc, SZ_DAILY_SCHEDULES).l IN
    [n \in 1..Len(days) |->
        [day |-> DayNumber(Field(days[n], SZ_DAY_OF_WEEK)),
         sw |-> LET sws == Field(days[n], SZ_SWITCHPOINTS).l IN
                [m \in 1..Len(sws) |->
                    [tod |-> Field(sws[m], SZ_TIME_OF_DAY).s,
                     val |-> IF HasField(sws[m], SZ_HEAT_SETPOINT)
                             THEN Field(sws[m], SZ_HEAT_SETPOINT)
                             ELSE Field(sws[m], SZ_DHW_STATE)]]]]

\* C5: every schedule a restore submits carries the days and switchpoint
\* values of the stored schedule of its entry, and is a document in the PUT
\* key casing, one that SCH_PUT_SCHEDULE accepts.
C5_RoundTripPutCasing ==
    (top = "zone_schedules_restore" /\ ~IsNone(file))
    => \A k \in 1..Len(submitted) :
          /\ ScheduleValues(submitted[k].doc)
                = ScheduleValues(The(file)[submitted[k].pos].schedule)
          /\ SCH_PUT_SCHEDULE(submitted[k].doc)

\* C6: a control system constructed from a valid config payload has as many
\* entries in its zones collection as the payload has zones, and every zone
\* identifier of the payload is a key of zones_by_id, for its own zone.
C6_ZonesCount ==
    (built = "ok" /\ SCH_TEMPERATURE_CONTROL_SYSTEM(The(config)))
    => LET cz == The(config).zones IN
       /\ Cardinality(DOMAIN zones) = Len(cz)
       /\ Cardinality(DOMAIN zones_by_id) = Len(cz)
       /\ \A i \in 1..Len(cz) :
             cz[i].zoneId \in DOMAIN zones_by_id /\ zones_by_id[cz[i].zoneId] = cz[i]

\* C7: construction from a payload whose systemId is absent or empty raises,
\* and the object it abandons has no zone in its list or in either index and
\* no hot-water unit.
C7_NoPartialGraph ==
    (~IsNone(config) /\ (IsNone(The(config).systemId) \/ The(config).systemId = Some("")))
    => /\ built = "failed"
       /\ tout = "raised"
       /\ terr \in {"AttributeError", "AssertionError"}
       /\ _zones = <<>>
       /\ DOMAIN zones = {}
       /\ DOMAIN zones_by_id = {}
       /\ IsNone(hotwater)

\* C7 witness: a failed construction from a payload that has zones and a dhw block
C7_Witness ==
    /\ built = "failed"
    /\ Len(The(config).zones) = MaxZones
    /\ ~IsNone(The(config).dhw)

\* the string is the time as "YYYY-MM-DDTHH:MM:SSZ"
IsApiTimestamp(w, t) ==
    /\ Len(w) = 20
    /\ \A k \in {1, 2, 3, 4, 6, 7, 9, 10, 12, 13, 15, 16, 18, 19} : IsDigit(w[k])
    /\ w[5] = "-" /\ w[8] = "-" /\ w[11] = "T"
    /\ w[14] = ":" /\ w[17] = ":" /\ w[20] = "Z"
    /\ NumVal(w, 1, 4) = t.Y /\ NumVal(w, 6, 7) = t.m /\ NumVal(w, 9, 10) = t.d
    /\ NumVal(w, 12, 13) = t.H /\ NumVal(w, 15, 16) = t.M /\ NumVal(w, 18, 19) = t.S

\* C8: the body of a mode request has exactly the keys SystemMode, TimeUntil
\* and Permanent, with the mode asked for; Permanent is true and TimeUntil
\* null when no until was given, Permanent false and TimeUntil the formatted
\* time otherwise; set_status_normal and set_status_reset give the permanent
\* form.
C8_ModeBody ==
    (session = "mode" /\ ~IsNone(body))
    => LET b == The(body) IN
       /\ DOMAIN b = {"SystemMode", "TimeUntil", "Permanent"}
       /\ b.SystemMode = marg.mode
       /\ IsNone(marg.until) => (b.Permanent = TRUE /\ IsNone(b.TimeUntil))
       /\ ~IsNone(marg.until)
             => /\ b.Permanent = FALSE
                /\ ~IsNone(b.TimeUntil)
                /\ IsApiTimestamp(The(b.TimeUntil), The(marg.until))
       /\ top \in {"set_status_normal", "set_status_reset"}
             => (b.Permanent = TRUE /\ IsNone(b.TimeUntil))
       /\ top = "set_status_normal" => b.SystemMode = "Auto"
       /\ top = "set_status_reset" => b.SystemMode = "AutoWithReset"

\* C8 witness: a temporary away request
C8_Witness ==
    /\ top = "set_status_away" /\ ~IsNone(body) /\ ~IsNone(marg.until)
    /\ The(body).Permanent = FALSE

\* C9: the report has the hot-water entry first when the payload has a dhw
\* block, then one entry per zone of the payload in payload order, so
\* |zones| + 1 or |zones| entries, shared names or not; a zone's temp is null
\* exactly when the zone reports its temperature unavailable.
C9_ReportOrder ==
    (top = "temperatures" /\ tout = "returned")
    => LET cz == The(config).zones
           off == IF IsNone(The(config).dhw) THEN 0 ELSE 1
       IN /\ Len(treport) = Len(cz) + off
          /\ off = 1
               => /\ treport[1].thermostat = "DOMESTIC_HOT_WATER"
                  /\ treport[1].id = The(The(config).dhw)
                  /\ treport[1].name = ""
                  /\ treport[1].setpoint = JStr(<<>>)
                  /\ treport[1].temp = JFloat(dhwTemp)
          /\ \A i \in 1..Len(cz) :
               LET e == treport[off + i] IN
               /\ e.thermostat = "EMEA_ZONE"
               /\ e.id = cz[i].zoneId
               /\ e.name = cz[i].name
               /\ e.setpoint = zstatus[cz[i].zoneId].targetHeatTemperature
               /\ e.temp = JNull <=> ~zstatus[cz[i].zoneId].isAvailable
               /\ zstatus[cz[i].zoneId].isAvailable
                    => e.temp = zstatus[cz[i].zoneId].temperature

\* C9 witness: a report with hot water and two zones of one name, the first
\* unavailable
C9_Witness ==
    /\ top = "temperatures" /\ tout = "returned"
    /\ Len(treport) = 3
    /\ treport[2].name = treport[3].name
    /\ treport[2].temp = JNull /\ treport[3].temp # JNull

\* a document written with the Pascal-case keys and values valid for PUT
PascalKeys(k) ==
    /\ k.daily = PascalCase(SZ_DAILY_SCHEDULES)
    /\ k.day = PascalCase(SZ_DAY_OF_WEEK)
    /\ k.sw = PascalCase(SZ_SWITCHPOINTS)
    /\ k.tod = PascalCase(SZ_TIME_OF_DAY)
    /\ k.val = PascalCase(IF k.kind = "zone" THEN SZ_HEAT_SETPOINT ELSE SZ_DHW_STATE)

\* C10: SCH_PUT_SCHEDULE accepts a document that spells its keys
\* DailySchedules, DayOfWeek, Switchpoints, TimeOfDay, HeatSetpoint / DhwState
\* and has valid values, and rejects a document that spells a key otherwise.
C10_PutKeysPascal ==
    (session = "schema" /\ sput # "none")
    => /\ (PascalKeys(skeys) /\ skeys.dayv = "int") => sput = "accepted"
       /\ sput = "accepted" => PascalKeys(skeys)

\* one of the seven day names Monday..Sunday, as a string
IsDayName(v) == v.t = "str" /\ \E n \in 1..7 : DAYS_OF_WEEK[n] = v.s

\* C11: a day entry put to SCH_GET_DAY_OF_WEEK_ZONE / SCH_GET_DAY_OF_WEEK_DHW
\* (its switchpoints valid) is accepted exactly when its dayOfWeek is one of
\* the seven day names: each of the seven names is accepted and every other
\* value is rejected.
C11_DayNameMembership ==
    (session = "dayentry" /\ sget # "none")
        => (sget = "accepted" <=> IsDayName(skeys.value))

\* the listed days are the seven days of the week, each exactly once
CoversWeek(days) == Len(days) = 7 /\ { days[k] : k \in 1..Len(days) } = 1..7

\* C12: every schedule document accepted by SCH_GET_SCHEDULE has exactly seven
\* day entries covering each day of the week exactly once: a document with a
\* missing day, a repeated day or no day entry is rejected.
C12_SevenDaysOnce ==
    (session = "week" /\ sget = "accepted") => CoversWeek(skeys.days)

\* a JSON number, and its value in tenths
IsNumber(v) == v.t \in {"float", "int"}
Tenths(v) == IF v.t = "int" THEN 10 * v.i ELSE v.i

\* C13: a zone switchpoint (its other field valid, its keys those of the
\* schema) is accepted by SCH_GET_SWITCHPOINT_ZONE, and by
\* SCH_PUT_SWITCHPOINT_ZONE, exactly when its heat setpoint lies in
\* [5.0, 35.0], the bounds included.
C13_SetpointRange ==
    session = "switchpoint" =>
        LET inside == IsNumber(skeys.value) /\ Tenths(skeys.value) >= 50
                      /\ Tenths(skeys.value) <= 350
        IN /\ (skeys.wire = "GET" /\ sget # "none") => (sget = "accepted" <=> inside)
           /\ (skeys.wire = "PUT" /\ sput # "none") => (sput = "accepted" <=> inside)

\* C13 (amended): a zone switchpoint (its other field valid, its keys those of
\* the schema) is accepted by SCH_GET_SWITCHPOINT_ZONE, and by
\* SCH_PUT_SWITCHPOINT_ZONE, exactly when its heat setpoint is a float and
\* lies in [5.0, 35.0], the bounds included; a value that is no float, an
\* integer inside the range included, is rejected.
C13_FloatSetpointRange ==
    session = "switchpoint" =>
        LET inside == skeys.value.t = "float" /\ skeys.value.i >= 50
                      /\ skeys.value.i <= 350
        IN /\ (skeys.wire = "GET" /\ sget # "none") => (sget = "accepted" <=> inside)
           /\ (skeys.wire = "PUT" /\ sput # "none") => (sput = "accepted" <=> inside)

\* the upper bound 35.0 has been put to the PUT schema and accepted
C13_Witness ==
    /\ session = "switchpoint"
    /\ skeys.wire = "PUT" /\ skeys.value = JFloat(350)
    /\ sput = "accepted"

\* the first data operation of a client constructed with user_data: before
\* it user_data is set while headers is still None (_populate_user_info sets
\* headers before it sets user_data, so no other client is in that state).
\* The operation authenticates nowhere, sends the locations request and ends
\* normally, or with the failure of a request or of a zone lookup
C14_FirstOperation ==
    (session = "legacy" /\ ~IsNone(user_data) /\ headers = "None" /\ lpc = "idle")
        => /\ nAuth' = 0
           /\ nFetch' = 1
           /\ lerr' \in {"none", "transport", "KeyError"}

\* C14: when user_data is given to the legacy constructor the client uses it
\* instead of authenticating: no request goes to the Session endpoint, and
\* the first data operation fetches the location data with the session id of
\* user_data and completes.
C14_UserDataInsteadOfAuthentication == [][C14_FirstOperation]_vars

\* C15: a lookup failure aborts the operation before any write is submitted:
\* a hot-water override (set_dhw_on, set_dhw_off, set_dhw_auto) on an
\* installation without a DOMESTIC_HOT_WATER device raises and sends no PUT
\* request.
C15_LookupFailureAborts ==
    (/\ session = "legacy"
     /\ lop = "_set_dhw"
     /\ ~IsNone(full_data)
     /\ IsNone(_get_dhw_zone(The(full_data).devices)))
        => (nPut = 0 /\ lout = "raised")

\* the identifiers of the entities of the control system, hot water first
EntityIds(hw, zs) ==
    [k \in 1..Len(BackupEntities(hw, zs)) |-> BackupEntities(hw, zs)[k].id]

\* what every step leaves true of zone_schedules_backup
C16_Step ==
    LET ids == EntityIds(hotwater', _zones')
        backup == top' = "zone_schedules_backup"
    IN
    /\ inflight' <= 1
    /\ bpc' = "await" =>
          /\ backup /\ inflight' = 1
          /\ fetched' = SubSeq(ids, 1, bidx')
          /\ file' = file
    /\ (backup /\ tout' = "returned") =>
          /\ fetched' = ids /\ inflight' = 0
          /\ ~IsNone(file')
          /\ Len(The(file')) = Len(ids)
          /\ { The(file')[k].id : k \in 1..Len(The(file')) }
                 = { ids[k] : k \in 1..Len(ids) }
    /\ (backup /\ tout' = "raised") =>
          /\ terr' = "transport" /\ inflight' = 0
          /\ file' = file
    /\ file' # file => (backup /\ tout' = "returned")

\* C16: zone_schedules_backup sends exactly one schedule fetch per entity, the
\* hot water first when present and then each zone in construction order,
\* has never more than one request in flight, and writes the file only after
\* every fetch was answered, with a mapping whose key set is exactly the set
\* of entity identifiers; when a fetch fails the error propagates and no file
\* is written.
C16_BackupSequential == [][C16_Step]_vars

\* C16 witness: a backup of the hot water and two zones has returned
C16_Witness ==
    /\ top = "zone_schedules_backup" /\ tout = "returned"
    /\ ~IsNone(hotwater) /\ Len(_zones) = 2
    /\ Len(fetched) = 3
    /\ Len(The(file)) = 3

\* the by-id index holds exactly the devices of the payload fd, keyed by
\* deviceID, and the by-name index holds only devices of fd, keyed by name
IndexesOf(fd, byId, byName) ==
    LET devs == { fd.devices[k] : k \in 1..Len(fd.devices) } IN
    /\ DOMAIN byId = { d.deviceID : d \in devs }
    /\ \A id \in DOMAIN byId : byId[id] \in devs /\ byId[id].deviceID = id
    /\ \A n \in DOMAIN byName : byName[n] \in devs /\ byName[n].name = n

\* what every step of the legacy client leaves true of its cache
C17_Step ==
    LET cache == <<full_data, location_id, devices, named_devices>>
        cacheNow == <<full_data', location_id', devices', named_devices'>>
        sent == IF lpc = "idle" THEN nFetch' ELSE nFetch' - nFetch
        forced == lpc = "idle" /\ lop' = "temperatures" /\ lforce'
    IN
    session = "legacy" =>
        /\ sent \in {0, 1}
        /\ sent = 1 => (IsNone(full_data) \/ forced)
        /\ cacheNow # cache => sent = 1
        /\ IF IsNone(full_data')
           THEN IsNone(devices') /\ IsNone(named_devices')
           ELSE /\ ~IsNone(devices') /\ ~IsNone(named_devices')
                /\ IndexesOf(The(full_data'), The(devices'), The(named_devices'))
        /\ (lout' = "raised" /\ lerr' # "KeyError" /\ (lpc = "poll" \/ nPut' = 0))
              => cacheNow = cache

\* C17: in the legacy client the location data is fetched only when nothing
\* is cached or force_refresh is requested; whenever full_data is set, devices
\* holds exactly the devices of the most recent fetch keyed by deviceID and
\* named_devices holds only devices of that fetch, no entry of an earlier
\* fetch surviving a refresh; an operation that fails before its write (the
\* fetch failed, or never went out) leaves the cached data and the indexes
\* unchanged.
C17_CacheAndIndexes == [][C17_Step]_vars

\* C17 witness: a forced refresh by a client that had authenticated before
\* has returned with a payload of one device
C17_Witness ==
    /\ lop = "temperatures" /\ lforce /\ lout = "returned"
    /\ nFetch = 1 /\ nAuth = 0
    /\ Len(The(full_data).devices) = 1
    /\ DOMAIN The(devices) = {1}

====
